---- MODULE Spec2Model ----
(***************************************************************************)
(* CustomVersionTagger (.tito/customtagger.py): the tito tagger hook that  *)
(* rewrites the version held in configure.ac's AC_INIT macro, stages the   *)
(* file with "git add" and then runs the inherited metadata update.        *)
(*                                                                         *)
(* Text is a sequence of tokens.  The seven letters of the literal AC_INIT *)
(* are one token (the literal has no proper border, so occurrences cannot  *)
(* overlap); every other token is one character.  "x" stands for any       *)
(* character that is neither a newline, whitespace, a comma nor a bracket. *)
(* Version strings are release versions: digits, dots and dashes.          *)
(***************************************************************************)
EXTENDS Integers, Sequences, FiniteSets, TLC

VARIABLES
    full_project_dir,   \* self.full_project_dir
    new_version,        \* the argument of _update_package_metadata
    fs,                 \* the filesystem: path -> text of the file
    index,              \* the git index: path -> staged text
    pc,                 \* the statement the call is at
    configure_ac,       \* local of _update_configure_ac (line 11)
    content,            \* local of _update_configure_ac (lines 13-15)
    err,                \* the exception that left _update_package_metadata
    log,                \* the effects of the current call, in order
    entry,              \* fs and index as they were when the call began
    prior               \* <<>>, or <<text of configure.ac when the previous call began>>

vars == <<full_project_dir, new_version, fs, index, pc, configure_ac,
          content, err, log, entry, prior>>

-----------------------------------------------------------------------------
(* Bounds of the inputs *)

MaxPieces == 3

MaxVerLen == 3

-----------------------------------------------------------------------------
(* Characters *)

AC_INIT == "AC_INIT"

NL == "\n"

\* Variant: only the blank counts as whitespace
IsBlank(c) == c = " "

\* Python's \s on the alphabet of the model
IsSpace(c) == c \in {" ", NL}

\* Python's . without re.DOTALL: anything but a newline
IsDot(c) == c # NL

-----------------------------------------------------------------------------
(* new_version.split('-')[0] *)

RECURSIVE FindSep(_, _)
\* str.find('-') from position k on: the index of the first '-', or 0
FindSep(v, k) ==
    IF k > Len(v) THEN 0
    ELSE IF v[k] = "-" THEN k
    ELSE FindSep(v, k + 1)

\* Variant: the version is used whole
SplitNone(v) == v

\* v.split('-')[0]
SplitFirst(v) ==
    LET k == FindSep(v, 1)
    IN  IF k = 0 THEN v ELSE SubSeq(v, 1, k - 1)

\* r'\1[%s]' % new_version.split('-')[0]
Template(v) == <<"\\1", "[">> \o SplitFirst(v) \o <<"]">>

-----------------------------------------------------------------------------
(* re.sub(r'(AC_INIT.*?,\s+)\[.*?\]', template, text) *)

RECURSIVE SkipSpace(_, _)
\* \s+ is greedy: the first index from k on that holds no whitespace
SkipSpace(s, k) ==
    IF k <= Len(s) /\ IsSpace(s[k]) THEN SkipSpace(s, k + 1) ELSE k

RECURSIVE FindClose(_, _)
\* \[.*?\] after the opening bracket: the index of the first ']' reached
\* over characters that '.' matches, or 0
FindClose(s, k) ==
    IF k > Len(s) THEN 0
    ELSE IF s[k] = "]" THEN k
    ELSE IF IsDot(s[k]) THEN FindClose(s, k + 1)
    ELSE 0

\* Variant: \s* in place of \s+
TryTailOptionalSpace(s, j) ==
    IF j > Len(s) \/ s[j] # "," THEN <<>>
    ELSE LET m == SkipSpace(s, j + 1)
         IN  IF m > Len(s) \/ s[m] # "[" THEN <<>>
             ELSE LET e == FindClose(s, m + 1)
                  IN  IF e = 0 THEN <<>> ELSE <<m, e>>

\* ,\s+\[.*?\] tried with the comma at j: <<index of '[', index of ']'>> or <<>>
TryTail(s, j) ==
    IF j > Len(s) \/ s[j] # "," THEN <<>>
    ELSE LET m == SkipSpace(s, j + 1)
         IN  IF m = j + 1 \/ m > Len(s) \/ s[m] # "[" THEN <<>>
             ELSE LET e == FindClose(s, m + 1)
                  IN  IF e = 0 THEN <<>> ELSE <<m, e>>

RECURSIVE LazyComma(_, _)
\* .*? after AC_INIT is lazy: the tail is tried at j first, and only when it
\* fails does '.' take s[j] and the search move on
LazyComma(s, j) ==
    IF j > Len(s) THEN <<>>
    ELSE LET t == TryTail(s, j)
         IN  IF t # <<>> THEN t
             ELSE IF IsDot(s[j]) THEN LazyComma(s, j + 1)
             ELSE <<>>

\* The pattern matched at position i: <<index of '[', index of ']'>> or <<>>.
\* Group 1 is s[i .. index of '[' - 1].
MatchAt(s, i) ==
    IF s[i] = AC_INIT THEN LazyComma(s, i + 1) ELSE <<>>

\* Variant: the template without its \1
ExpandWithoutGroup(t, g1) == SelectSeq(t, LAMBDA c : c # "\\1")

RECURSIVE Expand(_, _)
\* The replacement template with \1 replaced by group 1
Expand(t, g1) ==
    IF t = <<>> THEN <<>>
    ELSE (IF Head(t) = "\\1" THEN g1 ELSE <<Head(t)>>) \o Expand(Tail(t), g1)

RECURSIVE SubFrom(_, _, _)
\* re.sub scans left to right and replaces every non-overlapping match
SubFrom(s, i, t) ==
    IF i > Len(s) THEN <<>>
    ELSE LET m == MatchAt(s, i)
         IN  IF m # <<>>
             THEN Expand(t, SubSeq(s, i, m[1] - 1)) \o SubFrom(s, m[2] + 1, t)
             ELSE <<s[i]>> \o SubFrom(s, i + 1, t)

RECURSIVE SubOnce(_, _, _)
\* Variant: re.sub with count=1
SubOnce(s, i, t) ==
    IF i > Len(s) THEN <<>>
    ELSE LET m == MatchAt(s, i)
         IN  IF m # <<>>
             THEN Expand(t, SubSeq(s, i, m[1] - 1)) \o SubSeq(s, m[2] + 1, Len(s))
             ELSE <<s[i]>> \o SubOnce(s, i + 1, t)

re_sub_count1(t, s) == SubOnce(s, 1, t)

re_sub(t, s) == SubFrom(s, 1, t)

-----------------------------------------------------------------------------
(* Paths, files, the index *)

NoFiles == [p \in {} |-> <<>>]

\* os.path.join(a, b) for a relative b
PathJoin(a, b) ==
    IF a = <<>> THEN b
    ELSE IF a[Len(a)] = "/" THEN a \o b
    ELSE a \o <<"/">> \o b

\* Variant: a missing file is not noticed
ExistsAlways(fsys, path) == TRUE

\* open(path, 'r') succeeds
Exists(fsys, path) == path \in DOMAIN fsys

\* f.read()
ReadFile(fsys, path) == IF path \in DOMAIN fsys THEN fsys[path] ELSE <<>>

\* Variant: open(path, 'a'): the file is created or kept
OpenAppend(fsys, path) == (path :> ReadFile(fsys, path)) @@ fsys

\* open(path, 'w'): the file is created or truncated
Truncate(fsys, path) == (path :> <<>>) @@ fsys

\* f.write(data) on the file just truncated, then close
WriteFile(fsys, path, data) == (path :> (ReadFile(fsys, path) \o data)) @@ fsys

\* Variant: the file name without the project directory
GitAddBareName(path) == <<"git", "add", <<"configure.ac">>>>

\* "git add %s" % configure_ac
GitAddCommand(path) == <<"git", "add", path>>

\* git add <path>: the index takes the file's text
Stage(idx, fsys, path) == (path :> ReadFile(fsys, path)) @@ idx

-----------------------------------------------------------------------------
(* The inputs explored *)

ProjectDirs == {<<"/", "repo">>, <<"/", "repo", "/">>}

Chars == {AC_INIT, ",", " ", NL, "[", "]", "x"}

\* A one-line macro head with its name and version: AC_INITx, [x]
Mac == <<AC_INIT, "x", ",", " ", "[", "x", "]">>

\* A bracketed argument after a comma and a blank: , [x]
Arg == <<",", " ", "[", "x", "]">>

\* A bracketed argument on the next line: ,\n [x]
NlArg == <<",", NL, " ", "[", "x", "]">>

\* A bracketed argument right after the comma: ,[x]
NoWsArg == <<",", "[", "x", "]">>

\* A comma, a blank and an opening bracket: , [
Open == <<",", " ", "[">>

Pieces == {<<c>> : c \in Chars} \cup {Mac, Arg, NlArg, NoWsArg, Open}

RECURSIVE Concat(_)
\* The texts made of at most n pieces
Concat(n) ==
    IF n = 0 THEN {<<>>}
    ELSE LET shorter == Concat(n - 1)
         IN  shorter \cup {c \o p : c \in shorter, p \in Pieces}

Contents == Concat(MaxPieces)

SampleContents == {Mac \o <<"x", NL>>, <<AC_INIT>> \o NlArg \o Arg, <<"x">>}

VerChars == {"1", ".", "-"}

RECURSIVE VerStrings(_)
VerStrings(n) ==
    IF n = 0 THEN {<<>>}
    ELSE LET shorter == VerStrings(n - 1)
         IN  shorter \cup {v \o <<c>> : v \in shorter, c \in VerChars}

\* new_version is a non-empty string
Versions == VerStrings(MaxVerLen) \ {<<>>}

SampleVersions == {<<"1", ".", "1", "-", "1">>, <<"1">>}

-----------------------------------------------------------------------------
(* The state machine *)

Snapshot == [fs |-> fs, index |-> index]

Init ==
    /\ \/ /\ full_project_dir = <<"/", "repo">>
          /\ new_version \in SampleVersions
          /\ \E c \in Contents :
                 fs = (PathJoin(full_project_dir, <<"configure.ac">>) :> c)
       \/ /\ full_project_dir \in ProjectDirs
          /\ new_version \in Versions
          /\ \/ fs = NoFiles
             \/ \E c \in SampleContents :
                    fs = (PathJoin(full_project_dir, <<"configure.ac">>) :> c)
    /\ index = fs
    /\ pc = "idle"
    /\ configure_ac = <<>>
    /\ content = <<>>
    /\ err = ""
    /\ log = <<>>
    /\ entry = [fs |-> fs, index |-> fs]
    /\ prior = <<>>

\* The framework calls _update_package_metadata(new_version); after a call
\* has returned or raised, the release may be run again with the same version.
Call ==
    /\ pc \in {"idle", "done", "raised"}
    /\ pc' = "join"
    /\ prior' = IF pc = "idle" THEN <<>>
                ELSE <<ReadFile(entry.fs, configure_ac)>>
    /\ entry' = Snapshot
    /\ configure_ac' = <<>>
    /\ content' = <<>>
    /\ err' = ""
    /\ log' = <<>>
    /\ UNCHANGED <<full_project_dir, new_version, fs, index>>

\* configure_ac = os.path.join(self.full_project_dir, 'configure.ac')
Join ==
    /\ pc = "join"
    /\ configure_ac' = PathJoin(full_project_dir, <<"configure.ac">>)
    /\ pc' = "open_r"
    /\ UNCHANGED <<full_project_dir, new_version, fs, index, content, err,
                   log, entry, prior>>

\* with open(configure_ac, 'r') as f: raises when the file is missing
OpenRead ==
    /\ pc = "open_r"
    /\ IF Exists(fs, configure_ac)
       THEN pc' = "sub" /\ err' = err
       ELSE pc' = "raised" /\ err' = "FileNotFoundError"
    /\ UNCHANGED <<full_project_dir, new_version, fs, index, configure_ac,
                   content, log, entry, prior>>

\* content = re.sub(pattern, template, f.read())
Sub ==
    /\ pc = "sub"
    /\ content' = re_sub(Template(new_version), ReadFile(fs, configure_ac))
    /\ pc' = "open_w"
    /\ UNCHANGED <<full_project_dir, new_version, fs, index, configure_ac,
                   err, log, entry, prior>>

\* with open(configure_ac, 'w') as f
OpenWrite ==
    /\ pc = "open_w"
    /\ fs' = Truncate(fs, configure_ac)
    /\ pc' = "write"
    /\ UNCHANGED <<full_project_dir, new_version, index, configure_ac,
                   content, err, log, entry, prior>>

\* f.write(content)
Write ==
    /\ pc = "write"
    /\ fs' = WriteFile(fs, configure_ac, content)
    /\ log' = Append(log, <<"write", configure_ac>>)
    /\ pc' = "git_add"
    /\ UNCHANGED <<full_project_dir, new_version, index, configure_ac,
                   content, err, entry, prior>>

\* run_command("git add %s" % configure_ac) returns
GitAdd ==
    /\ pc = "git_add"
    /\ log' = Append(log, <<"run_command", GitAddCommand(configure_ac)>>)
    /\ index' = Stage(index, fs, configure_ac)
    /\ pc' = "super"
    /\ UNCHANGED <<full_project_dir, new_version, fs, configure_ac, content,
                   err, entry, prior>>

\* Variant: a failed staging puts the old text back
GitAddFailRollback ==
    /\ pc = "git_add"
    /\ log' = Append(log, <<"run_command", GitAddCommand(configure_ac)>>)
    /\ fs' = entry.fs
    /\ err' = "RunCommandException"
    /\ pc' = "raised"
    /\ UNCHANGED <<full_project_dir, new_version, index, configure_ac,
                   content, entry, prior>>

\* run_command("git add %s" % configure_ac) raises: git exits non-zero or
\* cannot be started
GitAddFail ==
    /\ pc = "git_add"
    /\ log' = Append(log, <<"run_command", GitAddCommand(configure_ac)>>)
    /\ err' = "RunCommandException"
    /\ pc' = "raised"
    /\ UNCHANGED <<full_project_dir, new_version, fs, index, configure_ac,
                   content, entry, prior>>

\* Variant: the base method runs before the file is staged
SuperEarly ==
    /\ pc = "git_add"
    /\ log' = Append(log, <<"super", new_version>>)
    /\ pc' = "done"
    /\ UNCHANGED <<full_project_dir, new_version, fs, index, configure_ac,
                   content, err, entry, prior>>

\* super()._update_package_metadata(new_version)
Super ==
    /\ pc = "super"
    /\ log' = Append(log, <<"super", new_version>>)
    /\ pc' = "done"
    /\ UNCHANGED <<full_project_dir, new_version, fs, index, configure_ac,
                   content, err, entry, prior>>

Next ==
    \/ Call
    \/ Join
    \/ OpenRead
    \/ Sub
    \/ OpenWrite
    \/ Write
    \/ GitAdd
    \/ GitAddFail
    \/ Super

Spec == Init /\ [][Next]_vars

-----------------------------------------------------------------------------
(* What the properties speak of.  These definitions state the pattern and  *)
(* the outcome by their meaning, without the matcher's search.             *)

\* The path of configure.ac directly under the project directory
ConfigurePath ==
    LET d == full_project_dir
        bare == IF d # <<>> /\ d[Len(d)] = "/" THEN SubSeq(d, 1, Len(d) - 1) ELSE d
    IN  bare \o <<"/", "configure.ac">>

TextOf(fsys) == IF ConfigurePath \in DOMAIN fsys THEN fsys[ConfigurePath] ELSE <<>>

\* configure.ac when the call began, and now
Old == TextOf(entry.fs)

Now == TextOf(fs)

ExistedAtEntry == ConfigurePath \in DOMAIN entry.fs

\* f.write(content) has been executed in the current call
Written ==
    \/ pc \in {"git_add", "super", "done"}
    \/ pc = "raised" /\ err = "RunCommandException"

Min(S) == CHOOSE x \in S : \A y \in S : x <= y

NoNewline(s, a, b) == \A k \in a..b : s[k] # "\n"

AllWhite(s, a, b) == \A k \in a..b : s[k] \in {" ", "\n"}

\* The first ']' after the '[' at m, when no newline lies between; else 0
CloseAfter(s, m) ==
    LET E == {e \in (m + 1)..Len(s) : s[e] = "]"}
    IN  IF E # {} /\ NoNewline(s, m + 1, Min(E) - 1) THEN Min(E) ELSE 0

\* The '[' that follows the comma at j after one or more whitespace, or 0
OpenAfter(s, j) ==
    LET M == {m \in (j + 2)..Len(s) : s[m] = "[" /\ AllWhite(s, j + 1, m - 1)}
    IN  IF M = {} THEN 0 ELSE Min(M)

\* The commas after the AC_INIT at i, on its line, that a whitespace run and
\* a bracketed value on one line follow
Commas(s, i) ==
    {j \in (i + 1)..Len(s) :
        /\ s[j] = ","
        /\ NoNewline(s, i + 1, j - 1)
        /\ OpenAfter(s, j) # 0
        /\ CloseAfter(s, OpenAfter(s, j)) # 0}

\* The pattern occurs starting at i
OccursAt(s, i) == s[i] = "AC_INIT" /\ Commas(s, i) # {}

Occurs(s) == \E i \in 1..Len(s) : OccursAt(s, i)

\* The '[' and the ']' of the occurrence at i (the lazy one: the first comma
\* that can be used)
OpenOf(s, i) == OpenAfter(s, Min(Commas(s, i)))

CloseOf(s, i) == CloseAfter(s, OpenOf(s, i))

\* s with the value between the '[' at m and the ']' at e replaced by p
Patched(s, m, e, p) == SubSeq(s, 1, m) \o p \o SubSeq(s, e, Len(s))

\* The part of v before its first '-', or all of v
DashPrefix(v) ==
    CHOOSE p \in {SubSeq(v, 1, n) : n \in 0..Len(v)} :
        /\ \A k \in 1..Len(p) : p[k] # "-"
        /\ Len(p) = Len(v) \/ v[Len(p) + 1] = "-"

Places(s, tok) == {k \in 1..Len(s) : s[k] = tok}

\* The text holds one AC_INIT, written AC_INIT(name, [oldver] ...: the first
\* comma after it is on its line and is followed by whitespace and the
\* bracketed version
OneMacro(s) ==
    /\ Cardinality(Places(s, "AC_INIT")) = 1
    /\ LET i == Min(Places(s, "AC_INIT"))
           C == {j \in (i + 1)..Len(s) : s[j] = ","}
       IN  /\ C # {}
           /\ Min(C) \in Commas(s, i)

-----------------------------------------------------------------------------
\* C1: when configure.ac holds exactly one AC_INIT(name, [oldver], rest...)
\* macro, the file after the rewrite is the old text with only the value
\* between the brackets that follow the first comma after AC_INIT replaced
\* by the computed version: the text up to and including the opening
\* bracket and the text from the closing bracket on are unchanged.
C1_ContentPreserved ==
    (Written /\ OneMacro(Old)) =>
        LET i == Min(Places(Old, "AC_INIT"))
        IN  Now = Patched(Old, OpenOf(Old, i), CloseOf(Old, i),
                          DashPrefix(new_version))

\* A completed call on a one-macro file with text before and after the macro
C1_Witness ==
    /\ pc = "done"
    /\ OneMacro(Old)
    /\ Now # Old
    /\ Old[1] # "AC_INIT"
    /\ LET i == Min(Places(Old, "AC_INIT")) IN CloseOf(Old, i) < Len(Old)

\* C2: the version written into the brackets of the first macro is the part
\* of new_version before its first '-', or all of it when it holds no '-'.
C2_VersionTruncatedAtDash ==
    (Written /\ Places(Old, "AC_INIT") # {}
             /\ OccursAt(Old, Min(Places(Old, "AC_INIT")))) =>
        LET m == OpenOf(Old, Min(Places(Old, "AC_INIT")))
            E == {e \in (m + 1)..Len(Now) : Now[e] = "]"}
        IN  /\ E # {}
            /\ SubSeq(Now, m + 1, Min(E) - 1) = DashPrefix(new_version)

\* A version with text after a dash has been written without it
C2_Witness ==
    /\ pc = "done"
    /\ Places(Old, "AC_INIT") # {}
    /\ OccursAt(Old, Min(Places(Old, "AC_INIT")))
    /\ \E k \in 2..(Len(new_version) - 1) : new_version[k] = "-"
    /\ DashPrefix(new_version) # new_version

RECURSIVE Chosen(_, _)
\* The starts of the occurrences a left-to-right scan from i takes: each
\* begins after the closing bracket of the one before
Chosen(s, i) ==
    IF i > Len(s) THEN <<>>
    ELSE IF OccursAt(s, i) THEN <<i>> \o Chosen(s, CloseOf(s, i) + 1)
    ELSE Chosen(s, i + 1)

RECURSIVE PatchedAt(_, _, _)
\* s with the bracketed value of each occurrence listed in c replaced by p,
\* the last one first
PatchedAt(s, c, p) ==
    IF c = <<>> THEN s
    ELSE LET i == c[Len(c)]
         IN  PatchedAt(Patched(s, OpenOf(s, i), CloseOf(s, i), p),
                       SubSeq(c, 1, Len(c) - 1), p)

\* C3 as stated: when the text holds more than one occurrence of the
\* pattern, only the first is rewritten and every later one keeps its value.
C3_OnlyFirstRewritten ==
    (Written /\ Len(Chosen(Old, 1)) > 1) =>
        Now = PatchedAt(Old, <<Chosen(Old, 1)[1]>>, DashPrefix(new_version))

\* C3, amended: every occurrence a left-to-right scan finds, each starting
\* after the end of the one before, is rewritten, not only the first.
C3_EveryOccurrenceRewritten ==
    (Written /\ Len(Chosen(Old, 1)) > 1) =>
        Now = PatchedAt(Old, Chosen(Old, 1), DashPrefix(new_version))

\* A completed call on a text with two occurrences, the second one changed
C3_Witness ==
    /\ pc = "done"
    /\ Len(Chosen(Old, 1)) > 1
    /\ Now # PatchedAt(Old, <<Chosen(Old, 1)[1]>>, DashPrefix(new_version))

\* The text holds one AC_INIT and a first comma after it, followed by
\* whitespace and a bracketed value on one line
SpreadMacro(s) ==
    /\ Cardinality(Places(s, "AC_INIT")) = 1
    /\ LET i == Min(Places(s, "AC_INIT"))
           C == {j \in (i + 1)..Len(s) : s[j] = ","}
       IN  /\ C # {}
           /\ OpenAfter(s, Min(C)) # 0
           /\ CloseAfter(s, OpenAfter(s, Min(C))) # 0

FirstComma(s) ==
    Min({j \in (Min(Places(s, "AC_INIT")) + 1)..Len(s) : s[j] = ","})

\* C4 as stated: wherever newlines and whitespace stand between AC_INIT and
\* the bracketed version, before the comma or after it, the version is
\* replaced by the computed version.
C4_AnyNewlinePlacement ==
    (Written /\ SpreadMacro(Old)) =>
        LET m == OpenAfter(Old, FirstComma(Old))
        IN  Now = Patched(Old, m, CloseAfter(Old, m), DashPrefix(new_version))

\* C4, amended: whatever whitespace and newlines stand between the comma and
\* the opening bracket, the version is replaced by the computed version,
\* provided no newline stands between AC_INIT and that comma.
C4_NewlinesAfterComma ==
    (Written /\ SpreadMacro(Old)
             /\ NoNewline(Old, Min(Places(Old, "AC_INIT")), FirstComma(Old))) =>
        LET m == OpenAfter(Old, FirstComma(Old))
        IN  Now = Patched(Old, m, CloseAfter(Old, m), DashPrefix(new_version))

\* A completed call that rewrote a macro whose version is on the next line
C4_Witness ==
    /\ pc = "done"
    /\ SpreadMacro(Old)
    /\ NoNewline(Old, Min(Places(Old, "AC_INIT")), FirstComma(Old))
    /\ ~NoNewline(Old, FirstComma(Old), OpenAfter(Old, FirstComma(Old)))
    /\ Now # Old

\* C5: a call made again with the same version leaves configure.ac with the
\* text the call before it left.
C5_Idempotent ==
    (prior # <<>> /\ Written) => Now = Old

\* A second call has completed after a first call that changed the text
C5_Witness ==
    /\ pc = "done"
    /\ prior # <<>>
    /\ prior[1] # Old
    /\ Occurs(Old)

\* The effects of one complete call, in the order of the code
WriteEvent == <<"write", ConfigurePath>>

StageEvent == <<"run_command", <<"git", "add", ConfigurePath>>>>

BaseEvent == <<"super", new_version>>

Count(kind) == Cardinality({k \in 1..Len(log) : log[k][1] = kind})

\* C6: in every call the file is overwritten, then staged, then the base
\* _update_package_metadata is invoked with the same new_version: the base
\* method is never invoked before the edit is staged, and exactly once in a
\* call that completes.
C6_EditStagedBeforeBase ==
    /\ \A k \in 1..Len(log) :
           log[k][1] = "super" =>
               /\ k = 3
               /\ log[1] = WriteEvent
               /\ log[2] = StageEvent
               /\ log[3] = BaseEvent
               /\ ExistedAtEntry
               /\ TextOf(index) = Now
    /\ pc = "done" => Count("super") = 1

\* A call has completed and the base method has run
C6_Witness ==
    /\ pc = "done"
    /\ log = <<WriteEvent, StageEvent, BaseEvent>>
    /\ Now # Old

\* C7: when configure.ac is missing, the call ends with FileNotFoundError, and
\* in that call nothing is staged, the base method is not invoked and no
\* configure.ac is created.
C7_MissingFile ==
    ~ExistedAtEntry =>
        /\ pc \in {"idle", "join", "open_r", "raised"}
        /\ pc = "raised" => err = "FileNotFoundError"
        /\ log = <<>>
        /\ fs = entry.fs
        /\ index = entry.index

\* The call on a project without configure.ac has raised
C7_Witness ==
    /\ ~ExistedAtEntry
    /\ pc = "raised"
    /\ err = "FileNotFoundError"

\* C8: a call that gets past the staging has invoked the staging command
\* exactly once, with the path of configure.ac under the project directory,
\* after the file was overwritten: the text staged is the rewritten text.
C8_StagedOnceAfterWrite ==
    pc \in {"super", "done"} =>
        /\ Count("run_command") = 1
        /\ log[2] = StageEvent
        /\ log[1] = WriteEvent
        /\ Now = content
        /\ TextOf(index) = content

\* A completed call has staged a text that differs from the old one
C8_Witness ==
    /\ pc = "done"
    /\ Count("run_command") = 1
    /\ TextOf(index) # Old
    /\ full_project_dir[Len(full_project_dir)] = "/"

\* C9: when the staging command fails, the error leaves
\* _update_package_metadata, the base method is not invoked, configure.ac
\* holds the rewritten text and the index is as it was: the write is not
\* undone.  The same holds of the state between the write and the staging.
C9_StagingFailure ==
    (pc = "git_add" \/ (pc = "raised" /\ err = "RunCommandException")) =>
        /\ Count("super") = 0
        /\ Now = content
        /\ index = entry.index
        /\ pc = "raised" => ~ENABLED Super

\* The staging has failed after a write that changed the file
C9_Witness ==
    /\ pc = "raised"
    /\ err = "RunCommandException"
    /\ Now # Old
    /\ TextOf(index) = Old

\* C10: when the text holds no occurrence of the pattern, the call raises no
\* error of its own: the file is overwritten with the text it held, the
\* staging command is invoked once and the base method is invoked.
C10_NoMatchIsSilent ==
    (ExistedAtEntry /\ ~Occurs(Old)) =>
        /\ pc = "raised" => err = "RunCommandException"
        /\ Written => (Now = Old /\ log[1] = WriteEvent)
        /\ pc = "done" => log = <<WriteEvent, StageEvent, BaseEvent>>

\* A completed call on a text whose AC_INIT has '[' right after its comma
C10_Witness ==
    /\ pc = "done"
    /\ ~Occurs(Old)
    /\ \E i, j \in 1..Len(Old) :
           /\ i < j
           /\ Old[i] = "AC_INIT"
           /\ Old[j] = ","
           /\ j < Len(Old)
           /\ Old[j + 1] = "["
           /\ CloseAfter(Old, j + 1) # 0
    /\ log = <<WriteEvent, StageEvent, BaseEvent>>

====
